---- MODULE Spec2Model ----
(***************************************************************************)
(* A model of planedb (src/planedb.c, src/planedb.h): the fixed-width      *)
(* field extractors, the two record loaders, the two linked-list indexes   *)
(* with their single-slot caches, and the database context's lifecycle     *)
(* (planedb_init, planedb_lookup, planeInfoPrint, planedb_close).          *)
(*                                                                         *)
(* Characters are their ASCII codes.  A C string is a sequence of codes;   *)
(* C index i is element i+1 of the sequence, and the terminating NUL is    *)
(* the code 0.  An int is a 32-bit two's complement value; the arithmetic  *)
(* of the extractors wraps modulo 2^32 (what gcc and clang produce for     *)
(* val << 4 and val * 10 on overflow).                                     *)
(***************************************************************************)
EXTENDS Integers, Sequences, FiniteSets, TLC

\* ------------------------------------------------------------------------
\* Characters
\* ------------------------------------------------------------------------

NUL == 0
NL == 10
SP == 32
CH_0 == 48
CH_9 == 57
CH_A == 65
CH_F == 70
CH_a == 97
CH_f == 102

\* str[i] of the C code: element i+1 of the sequence.  A C string ends with
\* its NUL, so a read at the end of the sequence reads the terminator.
CharAt(str, i) == IF (i + 1) \in DOMAIN str THEN str[i + 1] ELSE NUL

\* isspace() of <ctype.h> in the C locale: space, \t, \n, \v, \f, \r.
isspace(c) == c = SP \/ (c >= 9 /\ c <= 13)

\* strlen(): the number of characters before the first NUL.
strlen(str) ==
    LET Z == {i \in 0..Len(str) : CharAt(str, i) = NUL}
    IN  CHOOSE n \in Z : \A j \in Z : n <= j

\* ------------------------------------------------------------------------
\* 32-bit int arithmetic, written so that no intermediate value leaves the
\* range -2^31 .. 2^31-1.
\* ------------------------------------------------------------------------

TwoTo16 == 2^16
TwoTo27 == 2^27
TwoTo28 == 2^28

\* The int whose upper 16 bits are h and whose lower 16 bits are l
\* (h, l in 0..65535).
FromHalves(h, l) == (IF h >= 32768 THEN h - TwoTo16 ELSE h) * TwoTo16 + l

\* (val << 4) + d, d in 0..15: the low 28 bits of val move up by four.
Shl4Add(val, d) ==
    LET u == val % TwoTo28
    IN  (IF u >= TwoTo27 THEN u - TwoTo28 ELSE u) * 16 + d

\* (val * 10) + d, d in 0..9, modulo 2^32.
Mul10Add(val, d) ==
    LET hi == (val \div TwoTo16) % TwoTo16
        lo == val % TwoTo16
        l2 == lo * 10 + d
        h2 == (hi * 10 + (l2 \div TwoTo16)) % TwoTo16
    IN  FromHalves(h2, l2 % TwoTo16)

\* ------------------------------------------------------------------------
\* Field extractors
\* ------------------------------------------------------------------------

RECURSIVE parse_hex_loop(_, _, _, _)
parse_hex_loop(str, offset, i, val) ==
    IF i >= 8 THEN val
    ELSE LET c == CharAt(str, i + offset)
         IN  IF c >= CH_0 /\ c <= CH_9
                 THEN parse_hex_loop(str, offset, i + 1, Shl4Add(val, c - CH_0))
             ELSE IF c >= CH_a /\ c <= CH_f
                 THEN parse_hex_loop(str, offset, i + 1, Shl4Add(val, c - CH_a + 10))
             ELSE IF c >= CH_A /\ c <= CH_F
                 THEN parse_hex_loop(str, offset, i + 1, Shl4Add(val, c - CH_A + 10))
             ELSE val

parse_hex(str, offset) == parse_hex_loop(str, offset, 0, 0)

RECURSIVE parse_int_loop(_, _, _, _)
parse_int_loop(str, offset, i, val) ==
    IF i >= 10 THEN val
    ELSE LET c == CharAt(str, i + offset)
         IN  IF c >= CH_0 /\ c <= CH_9
                 THEN parse_int_loop(str, offset, i + 1, Mul10Add(val, c - CH_0))
             ELSE val

parse_int(str, offset) == parse_int_loop(str, offset, 0, 0)

\* The index of the last non-space character of str[p0 .. p1-1], or p0-1.
RECURSIVE pickup_last(_, _, _)
pickup_last(str, p0, last) ==
    IF last >= p0 /\ isspace(CharAt(str, last))
        THEN pickup_last(str, p0, last - 1)
        ELSE last

\* strndup(s + p0, n): at most n characters, stopping at a NUL.
RECURSIVE strndup(_, _, _)
strndup(str, p0, n) ==
    IF n <= 0 \/ CharAt(str, p0) = NUL THEN << >>
    ELSE << CharAt(str, p0) >> \o strndup(str, p0 + 1, n - 1)

\* pickup() when strndup succeeds: the trimmed copy.
pickup(str, p0, p1) == strndup(str, p0, pickup_last(str, p0, p1 - 1) - p0 + 1)

\* ------------------------------------------------------------------------
\* Pointers and memory
\* ------------------------------------------------------------------------

\* A record pointer is NULL, the address of a record (its index in the heap
\* of its type, 1, 2, ... in allocation order), or Wild: an address that is
\* no record of the program.
Null == 0
Wild == -1

\* A char * that is NULL (a string is a sequence of character codes >= 0).
NullStr == << -1 >>

INSIZE == 1024
TYPE_MINLEN == 68
PLANE_MINLEN == 610

\* What malloc() returns is not initialised: the block is fresh from the
\* system (all bits zero), or a block the process used before, whose int
\* fields hold a nonzero value (StaleInt) and whose pointer fields hold the
\* address of a record (the first of its heap) or of no record (Wild).
StaleInt == 48879
MemImage == {"zero", "stale", "junk"}
GarbageInt(img) == IF img = "zero" THEN 0 ELSE StaleInt
GarbagePtr(img) == IF img = "zero" THEN Null ELSE IF img = "stale" THEN 1 ELSE Wild

\* ------------------------------------------------------------------------
\* Input files
\* ------------------------------------------------------------------------

\* A line of len characters: blanks, with each field's text at its offset,
\* and a newline after it when nl.  fields is a set of << offset, text >>.
MkLine(len, fields, nl) ==
    LET at(i) == LET F == {f \in fields : f[1] <= i /\ i < f[1] + Len(f[2])}
                 IN  IF F = {} THEN SP
                     ELSE LET f == CHOOSE g \in F : TRUE IN f[2][i - f[1] + 1]
    IN  [k \in 1..len |-> at(k - 1)] \o (IF nl THEN << NL >> ELSE << >>)

\* An ACFTREF.txt line: code at 0, manufacturer at 8, model at 39, type at
\* 60, seats at 72.
TypeLine(len, code, mfr, model, type, seats, nl) ==
    MkLine(len, {<<0, code>>, <<7, <<44>> >>, <<8, mfr>>, <<38, <<44>> >>,
                 <<39, model>>, <<59, <<44>> >>, <<60, type>>,
                 <<61, <<44>> >>, <<72, seats>>}, nl)

\* A MASTER.txt line: N-number at 0, model code at 37, registrant at 58,
\* mode S hex code at 601.
PlaneLine(len, nnum, code, registrant, hex, nl) ==
    MkLine(len, {<<0, nnum>>, <<5, <<44>> >>, <<37, code>>, <<44, <<44>> >>,
                 <<58, registrant>>, <<108, <<44>> >>, <<601, hex>>}, nl)

\* "CESSNA", "172", "PIPER", "JOHN DOE", "N-NUM" (a header cell)
TxtCessna == <<67, 69, 83, 83, 78, 65>>
Txt172 == <<49, 55, 50>>
TxtPiper == <<80, 73, 80, 69, 82>>
TxtJohnDoe == <<74, 79, 72, 78, 32, 68, 79, 69>>
TxtHeader == <<78, 45, 78, 85, 77>>

\* The decimal digits "12", "7", "4", "48879" and the hex digits "A1B2C3",
\* "00b00b"
Dig12 == <<49, 50>>
Dig7 == <<55>>
Dig4 == <<52>>
Dig48879 == <<52, 56, 56, 55, 57>>
HexA1B2C3 == <<65, 49, 66, 50, 67, 51>>
Hex00b00b == <<48, 48, 98, 48, 48, 98>>

\* A line too short to be a record.
ShortLine == <<49, 50, 44, 88, NL>>

\* Type files: a record and a short line; and a line of 1023 + 68
\* characters (longer than the read buffer) followed by a record, the
\* file ending without a newline.
TypeFileA == TypeLine(75, Dig12, TxtCessna, Txt172, Dig4, Dig4, TRUE) \o ShortLine
TypeFileB ==
    TypeLine(INSIZE - 1 + TYPE_MINLEN, Dig7, TxtPiper, Txt172, Dig4, Dig4, TRUE)
    \o TypeLine(75, Dig12, TxtCessna, Txt172, Dig4, Dig4, FALSE)

\* A type file of three records: a line of exactly 68 characters (nothing at
\* offset 72), a line of 75 characters whose type field reads "12" and whose
\* seats field reads "4", and the first line again.
TypeFileC ==
    TypeLine(TYPE_MINLEN, Dig7, TxtPiper, Txt172, Dig4, Dig4, TRUE)
    \o MkLine(75, {<<0, Dig12>>, <<7, <<44>> >>, <<8, TxtCessna>>, <<38, <<44>> >>,
                   <<39, Txt172>>, <<59, <<44>> >>, <<60, Dig12>>, <<72, Dig4>>},
              TRUE)
    \o TypeLine(TYPE_MINLEN, Dig7, TxtPiper, Txt172, Dig4, Dig4, TRUE)

\* Registration files: the empty file; a header line (no hex code at 601),
\* a short line and a record; two records.
PlaneFileA == << >>
PlaneFileB ==
    PlaneLine(611, TxtHeader, TxtHeader, TxtHeader, TxtHeader, TRUE)
    \o ShortLine
    \o PlaneLine(611, Dig12, Dig12, TxtJohnDoe, HexA1B2C3, TRUE)
PlaneFileC ==
    PlaneLine(611, Dig12, Dig7, TxtJohnDoe, HexA1B2C3, TRUE)
    \o PlaneLine(611, Dig7, Dig12, TxtJohnDoe, Hex00b00b, TRUE)

\* A registration file of four records: two with a blank mode S code (id 0)
\* and two with the code A1B2C3; the first record's model code is 48879.
PlaneFileD ==
    PlaneLine(611, Dig7, Dig48879, TxtJohnDoe, << >>, TRUE)
    \o PlaneLine(611, Dig12, Dig7, TxtJohnDoe, HexA1B2C3, TRUE)
    \o PlaneLine(611, Dig4, Dig12, TxtJohnDoe, << >>, TRUE)
    \o PlaneLine(611, Dig48879, Dig12, TxtJohnDoe, HexA1B2C3, TRUE)

\* A file of the runtime directory: absent, its bytes, or a name fopen()
\* opens and no read succeeds on (a directory: read() fails with EISDIR).
NoFile == [exists |-> FALSE, data |-> << >>, ioerr |-> FALSE]
File(bytes) == [exists |-> TRUE, data |-> bytes, ioerr |-> FALSE]
Unreadable == [exists |-> TRUE, data |-> << >>, ioerr |-> TRUE]

\* The files the runtime directory may hold, by name.
TypeFiles == {"missing", "unreadable", "TypeFileA", "TypeFileB", "TypeFileC"}
PlaneFiles ==
    {"missing", "unreadable", "PlaneFileA", "PlaneFileB", "PlaneFileC",
     "PlaneFileD"}

FileNamed(n) ==
    CASE n = "TypeFileA" -> File(TypeFileA)
      [] n = "TypeFileB" -> File(TypeFileB)
      [] n = "TypeFileC" -> File(TypeFileC)
      [] n = "PlaneFileA" -> File(PlaneFileA)
      [] n = "PlaneFileB" -> File(PlaneFileB)
      [] n = "PlaneFileC" -> File(PlaneFileC)
      [] n = "PlaneFileD" -> File(PlaneFileD)
      [] n = "unreadable" -> Unreadable
      [] OTHER -> NoFile

\* ------------------------------------------------------------------------
\* fgets(inbuf, INSIZE, f)
\* ------------------------------------------------------------------------

\* The number of characters one fgets() call stores from data at read
\* position pos: up to and including the next newline, at most INSIZE - 1.
fgets_count(data, pos) ==
    LET rem == Len(data) - pos
        cap == IF rem < INSIZE - 1 THEN rem ELSE INSIZE - 1
        NLs == {k \in 1..cap : data[pos + k] = NL}
    IN  IF NLs = {} THEN cap
        ELSE CHOOSE k \in NLs : \A j \in NLs : k <= j

\* The buffer after the call: the characters read, a NUL, and the rest of
\* the buffer as it was.
fgets_buf(buf, data, pos) ==
    LET n == fgets_count(data, pos)
    IN  SubSeq(data, pos + 1, pos + n) \o << NUL >> \o SubSeq(buf, n + 2, Len(buf))

\* The end-of-file indicator after the call: set when the read ran into the
\* end of the data before a newline and before the buffer was full.
fgets_eof(data, pos) ==
    LET n == fgets_count(data, pos)
    IN  pos + n = Len(data) /\ n < INSIZE - 1
        /\ (n = 0 \/ data[pos + n] # NL)

\* ------------------------------------------------------------------------
\* State
\* ------------------------------------------------------------------------

VARIABLES
    pc,          \* where the program is: "start", "load_types", "load_planes",
                 \* "init_fail" (a loader returned FALSE), "ready", "failed"
                 \* (planedb_init returned NULL), "closed", "crashed", "hung"
    typesFile,   \* which file ACFTREF.txt is in the runtime directory
    planesFile,  \* which file MASTER.txt is in the runtime directory
    stream,      \* the FILE a loader has open: read position, EOF and error
                 \* indicators
    inbuf,       \* the static read buffer, up to the last character ever
                 \* stored in it (the rest of its INSIZE characters is NUL)
    db,          \* the PlaneDb context
    tis,         \* the TypeInfo records, by address
    pis,         \* the PlaneInfo records, by address
    prev,        \* the loader's local: the record linked last
    handle,      \* what planedb_init returned to the caller
    call,        \* the last call of the public interface, as the caller saw it
    freed,       \* every free() so far, in order
    lastFound,   \* per index, the key and result of the last lookup that
                 \* returned a record (<< >> while there is none)
    loadRet,     \* what load_types and load_planes returned ("none" while
                 \* not called or not yet returned)
    hexIn,       \* parse_hex on its own: the string, the offset, the digits
    hexOut,      \* parse_hex on its own: << >>, or << the value returned >>
    intIn,       \* parse_int on its own: the string, the offset, the digits
    intOut       \* parse_int on its own: << >>, or << the value returned >>

vars == << pc, typesFile, planesFile, stream, inbuf, db, tis, pis, prev,
           handle, call, freed, lastFound, loadRet, hexIn, hexOut, intIn, intOut >>

\* The address of the one context.
DbAddr == 1

\* The two input files.
ACFTREF == FileNamed(typesFile)
MASTER == FileNamed(planesFile)

NoStream ==
    [open |-> FALSE, name |-> "none", pos |-> 0, eof |-> FALSE, error |-> FALSE]
OpenStream(n) ==
    [open |-> TRUE, name |-> n, pos |-> 0, eof |-> FALSE, error |-> FALSE]

NoCall ==
    [op |-> "none", db |-> Null, icaoNull |-> FALSE, id |-> 0, ret |-> Null,
     outcome |-> "ret", reads |-> {}, out |-> << >>]

\* No input of the stand-alone run of parse_hex, of parse_int.
NoHexIn == [str |-> << >>, offset |-> 0, digits |-> << >>, suffix |-> FALSE]
NoIntIn == [str |-> << >>, offset |-> 0, digits |-> << >>, suffix |-> FALSE]

Init ==
    /\ pc = "start"
    /\ typesFile \in TypeFiles
    /\ planesFile \in PlaneFiles
    /\ stream = NoStream
    /\ inbuf = << >>
    /\ db = [alloc |-> "none", types |-> Null, last_model |-> 0, last_ti |-> Null,
             planes |-> Null, last_icao |-> 0, last_pi |-> Null]
    /\ tis = << >>
    /\ pis = << >>
    /\ prev = Null
    /\ handle = Null
    /\ call = NoCall
    /\ freed = << >>
    /\ lastFound = [types |-> << >>, planes |-> << >>]
    /\ loadRet = [types |-> "none", planes |-> "none"]
    /\ hexIn = NoHexIn
    /\ hexOut = << >>
    /\ intIn = NoIntIn
    /\ intOut = << >>

\* ------------------------------------------------------------------------
\* Records
\* ------------------------------------------------------------------------

\* typeInfoCreate(): every field but next is set; next is what malloc left.
typeInfoCreate(g) ==
    [next |-> g, id |-> 0, manufacturer |-> NullStr, model |-> NullStr,
     type |-> 0, nrseats |-> 0, live |-> TRUE]

\* planeInfoCreate(): every field but next is set.
planeInfoCreate(g) ==
    [next |-> g, id |-> 0, nnum |-> NullStr, model |-> 0,
     registrant |-> NullStr, live |-> TRUE]

\* The free() calls of typeInfoDelete(p) on a record.
typeInfoDelete(heap, p) ==
    (IF heap[p].manufacturer # NullStr
        THEN << <<"string", "TypeInfo.manufacturer", p>> >> ELSE << >>)
    \o (IF heap[p].model # NullStr
        THEN << <<"string", "TypeInfo.model", p>> >> ELSE << >>)
    \o << <<"record", "TypeInfo", p>> >>

\* The free() calls of planeInfoDelete(p) on a record.
planeInfoDelete(heap, p) ==
    (IF heap[p].nnum # NullStr
        THEN << <<"string", "PlaneInfo.nnum", p>> >> ELSE << >>)
    \o (IF heap[p].registrant # NullStr
        THEN << <<"string", "PlaneInfo.registrant", p>> >> ELSE << >>)
    \o << <<"record", "PlaneInfo", p>> >>

\* ------------------------------------------------------------------------
\* planedb_close: the two traversals
\* ------------------------------------------------------------------------

\* for (trec = p ; trec ; trec = tnext) { tnext = trec->next; delete(trec) }.
\* The walk ends at NULL.  A pointer that is no live record (the last
\* record's next is never assigned) is read and freed all the same: bad.
RECURSIVE close_types(_, _, _)
close_types(heap, p, log) ==
    IF p = Null THEN [heap |-> heap, log |-> log, bad |-> FALSE]
    ELSE IF p \notin DOMAIN heap
        THEN [heap |-> heap, log |-> Append(log, <<"record", "TypeInfo", p>>),
              bad |-> TRUE]
    ELSE IF ~heap[p].live
        THEN [heap |-> heap, log |-> log \o typeInfoDelete(heap, p), bad |-> TRUE]
    ELSE close_types([heap EXCEPT ![p].live = FALSE], heap[p].next,
                     log \o typeInfoDelete(heap, p))

RECURSIVE close_planes(_, _, _)
close_planes(heap, p, log) ==
    IF p = Null THEN [heap |-> heap, log |-> log, bad |-> FALSE]
    ELSE IF p \notin DOMAIN heap
        THEN [heap |-> heap, log |-> Append(log, <<"record", "PlaneInfo", p>>),
              bad |-> TRUE]
    ELSE IF ~heap[p].live
        THEN [heap |-> heap, log |-> log \o planeInfoDelete(heap, p), bad |-> TRUE]
    ELSE close_planes([heap EXCEPT ![p].live = FALSE], heap[p].next,
                      log \o planeInfoDelete(heap, p))

\* planedb_close with its two loops exchanged: the planes, the types, the
\* context.
planedb_close_run_planes_first(carry) ==
    LET p == close_planes(pis, db.planes, << >>)
        t == close_types(tis, db.types, p.log)
    IN  IF p.bad /\ ~carry
            THEN [tis |-> tis, pis |-> p.heap, log |-> p.log, bad |-> TRUE,
                  crashed |-> TRUE]
        ELSE IF t.bad /\ ~carry
            THEN [tis |-> t.heap, pis |-> p.heap, log |-> t.log, bad |-> TRUE,
                  crashed |-> TRUE]
        ELSE [tis |-> t.heap, pis |-> p.heap,
              log |-> Append(t.log, <<"record", "PlaneDb", DbAddr>>),
              bad |-> t.bad \/ p.bad, crashed |-> FALSE]

\* planedb_close(db) on a context: the types, the planes, the context.  An
\* invalid free either stops the process (carry = FALSE) or goes unnoticed.
planedb_close_run(carry) ==
    LET t == close_types(tis, db.types, << >>)
        p == close_planes(pis, db.planes, t.log)
    IN  IF t.bad /\ ~carry
            THEN [tis |-> t.heap, pis |-> pis, log |-> t.log, bad |-> TRUE,
                  crashed |-> TRUE]
        ELSE IF p.bad /\ ~carry
            THEN [tis |-> t.heap, pis |-> p.heap, log |-> p.log, bad |-> TRUE,
                  crashed |-> TRUE]
        ELSE [tis |-> t.heap, pis |-> p.heap,
              log |-> Append(p.log, <<"record", "PlaneDb", DbAddr>>),
              bad |-> t.bad \/ p.bad, crashed |-> FALSE]

\* ------------------------------------------------------------------------
\* planedb_init and the two loaders
\* ------------------------------------------------------------------------

InitReturned(r) == [NoCall EXCEPT !.op = "init", !.ret = r]

\* planedb_init up to load_types' fopen(): the context is allocated, types
\* and planes are set to NULL, and the four cache fields are not assigned.
planedb_init ==
    /\ pc = "start"
    /\ \E ok \in BOOLEAN, img \in MemImage :
        IF ~ok
            THEN /\ pc' = "failed"
                 /\ call' = InitReturned(Null)
                 /\ UNCHANGED << db, stream, loadRet >>
            ELSE /\ db' = [alloc |-> "live", types |-> Null,
                           last_model |-> GarbageInt(img),
                           last_ti |-> GarbagePtr(img),
                           planes |-> Null,
                           last_icao |-> GarbageInt(img),
                           last_pi |-> GarbagePtr(img)]
                 /\ IF ACFTREF.exists
                        THEN /\ pc' = "load_types"
                             /\ stream' = OpenStream("types")
                             /\ UNCHANGED loadRet
                        ELSE /\ pc' = "init_fail"
                             /\ loadRet' = [loadRet EXCEPT !.types = "FALSE"]
                             /\ UNCHANGED stream
                 /\ UNCHANGED call
    /\ UNCHANGED << typesFile, planesFile, inbuf, tis, pis, prev, handle,
                    freed, lastFound, hexIn, hexOut, intIn, intOut >>

\* The stream after one fgets() call that fails: the error indicator is
\* set, the EOF indicator is not, and fgets() returns NULL.
fgets_failed == [stream EXCEPT !.error = TRUE]

\* The stream after one fgets() call on a readable file.
fgets_stream(data) ==
    [stream EXCEPT !.pos = @ + fgets_count(data, @),
                   !.eof = @ \/ fgets_eof(data, stream.pos)]

\* The line fgets() returned, or no line: what the loader's loop body sees.
LineRead(data) == fgets_count(data, stream.pos) > 0
LineBuf(data) == fgets_buf(inbuf, data, stream.pos)

\* load_types: while (!feof(f)) has ended; fclose, return TRUE, and
\* planedb_init goes on to load_planes' fopen().
load_types_done ==
    /\ pc = "load_types"
    /\ stream.eof
    /\ IF MASTER.exists
           THEN /\ pc' = "load_planes"
                /\ stream' = OpenStream("planes")
                /\ loadRet' = [loadRet EXCEPT !.types = "TRUE"]
           ELSE /\ pc' = "init_fail"
                /\ stream' = NoStream
                /\ loadRet' = [types |-> "TRUE", planes |-> "FALSE"]
    /\ prev' = Null
    /\ UNCHANGED << typesFile, planesFile, inbuf, db, tis, pis, handle, call,
                    freed, lastFound, hexIn, hexOut, intIn, intOut >>

\* load_types: one pass of the loop that makes no record (fgets returned
\* NULL, at the end of the file or on a read error, or the line is shorter
\* than 68).  After a read error feof() stays false: the next pass is this
\* one again, and it changes nothing.
load_types_skip ==
    /\ pc = "load_types"
    /\ ~stream.eof
    /\ \E str \in {LineBuf(ACFTREF.data)} :
        /\ ~LineRead(ACFTREF.data) \/ strlen(str) < TYPE_MINLEN
        /\ inbuf' = IF LineRead(ACFTREF.data) THEN str ELSE inbuf
    /\ stream' = IF ACFTREF.ioerr THEN fgets_failed ELSE fgets_stream(ACFTREF.data)
    /\ UNCHANGED << pc, typesFile, planesFile, db, tis, pis, prev, handle,
                    call, freed, lastFound, loadRet, hexIn, hexOut, intIn, intOut >>

\* The TypeInfo the loop body builds from str; fail = 2 stops after the id
\* (the manufacturer's strndup failed), fail = 3 after the manufacturer.
load_types_fields(str, g, fail) ==
    LET r1 == [typeInfoCreate(g) EXCEPT !.id = parse_int(str, 0)]
        r2 == [r1 EXCEPT !.manufacturer = pickup(str, 8, 38)]
    IN  IF fail = 2 THEN r1
        ELSE IF fail = 3 THEN r2
        ELSE [r2 EXCEPT !.model = pickup(str, 39, 59),
                        !.type = parse_int(str, 60),
                        !.nrseats = parse_int(str, 72)]

\* load_types: one pass of the loop on a line of at least 68 characters.
\* fail = 0: the record is built and linked; 1: typeInfoCreate returned NULL
\* (fclose, return FALSE); 2, 3: pickup returned NULL (return FALSE).
load_types_record ==
    /\ pc = "load_types"
    /\ ~stream.eof
    /\ LineRead(ACFTREF.data)
    /\ \E str \in {LineBuf(ACFTREF.data)}, fail \in 0..3, img \in MemImage :
        /\ strlen(str) >= TYPE_MINLEN
        /\ inbuf' = str
        /\ LET ti == Len(tis) + 1
               rec == load_types_fields(str, GarbagePtr(img), fail)
           IN  IF fail = 1
                   THEN /\ pc' = "init_fail"
                        /\ stream' = NoStream
                        /\ loadRet' = [loadRet EXCEPT !.types = "FALSE"]
                        /\ UNCHANGED << db, tis, prev >>
               ELSE IF fail \in {2, 3}
                   THEN /\ pc' = "init_fail"
                        /\ stream' = fgets_stream(ACFTREF.data)
                        /\ tis' = Append(tis, rec)
                        /\ loadRet' = [loadRet EXCEPT !.types = "FALSE"]
                        /\ UNCHANGED << db, prev >>
               ELSE /\ pc' = pc
                    /\ UNCHANGED loadRet
                    /\ stream' = fgets_stream(ACFTREF.data)
                    /\ IF prev # Null
                           THEN /\ tis' = Append([tis EXCEPT ![prev].next = ti], rec)
                                /\ UNCHANGED db
                           ELSE /\ tis' = Append(tis, rec)
                                /\ db' = [db EXCEPT !.types = ti]
                    /\ prev' = ti
    /\ UNCHANGED << typesFile, planesFile, pis, handle, call, freed, lastFound,
                    hexIn, hexOut, intIn, intOut >>

\* load_planes: the loop has ended; fclose, return TRUE, and planedb_init
\* returns the context.
load_planes_done ==
    /\ pc = "load_planes"
    /\ stream.eof
    /\ pc' = "ready"
    /\ stream' = NoStream
    /\ handle' = DbAddr
    /\ call' = InitReturned(DbAddr)
    /\ loadRet' = [loadRet EXCEPT !.planes = "TRUE"]
    /\ UNCHANGED << typesFile, planesFile, inbuf, db, tis, pis, prev, freed,
                    lastFound, hexIn, hexOut, intIn, intOut >>

load_planes_skip ==
    /\ pc = "load_planes"
    /\ ~stream.eof
    /\ \E str \in {LineBuf(MASTER.data)} :
        /\ ~LineRead(MASTER.data) \/ strlen(str) < PLANE_MINLEN
        /\ inbuf' = IF LineRead(MASTER.data) THEN str ELSE inbuf
    /\ stream' = IF MASTER.ioerr THEN fgets_failed ELSE fgets_stream(MASTER.data)
    /\ UNCHANGED << pc, typesFile, planesFile, db, tis, pis, prev, handle,
                    call, freed, lastFound, loadRet, hexIn, hexOut, intIn, intOut >>

\* The PlaneInfo the loop body builds from str; fail = 2 stops after the id
\* (the N-number's strndup failed), fail = 3 after the model code.
load_planes_fields(str, g, fail) ==
    LET r1 == [planeInfoCreate(g) EXCEPT !.id = parse_hex(str, 601)]
        r2 == [r1 EXCEPT !.nnum = pickup(str, 0, 5), !.model = parse_int(str, 37)]
    IN  IF fail = 2 THEN r1
        ELSE IF fail = 3 THEN r2
        ELSE [r2 EXCEPT !.registrant = pickup(str, 58, 107)]

load_planes_record ==
    /\ pc = "load_planes"
    /\ ~stream.eof
    /\ LineRead(MASTER.data)
    /\ \E str \in {LineBuf(MASTER.data)}, fail \in 0..3, img \in MemImage :
        /\ strlen(str) >= PLANE_MINLEN
        /\ inbuf' = str
        /\ LET pi == Len(pis) + 1
               rec == load_planes_fields(str, GarbagePtr(img), fail)
           IN  IF fail = 1
                   THEN /\ pc' = "init_fail"
                        /\ stream' = NoStream
                        /\ loadRet' = [loadRet EXCEPT !.planes = "FALSE"]
                        /\ UNCHANGED << db, pis, prev >>
               ELSE IF fail \in {2, 3}
                   THEN /\ pc' = "init_fail"
                        /\ stream' = fgets_stream(MASTER.data)
                        /\ pis' = Append(pis, rec)
                        /\ loadRet' = [loadRet EXCEPT !.planes = "FALSE"]
                        /\ UNCHANGED << db, prev >>
               ELSE /\ pc' = pc
                    /\ UNCHANGED loadRet
                    /\ stream' = fgets_stream(MASTER.data)
                    /\ IF prev # Null
                           THEN /\ pis' = Append([pis EXCEPT ![prev].next = pi], rec)
                                /\ UNCHANGED db
                           ELSE /\ pis' = Append(pis, rec)
                                /\ db' = [db EXCEPT !.planes = pi]
                    /\ prev' = pi
    /\ UNCHANGED << typesFile, planesFile, tis, handle, call, freed, lastFound,
                    hexIn, hexOut, intIn, intOut >>

\* planedb_init after a loader returned FALSE, with the test of the loader's
\* result lost: the context is returned as it is.
planedb_init_fail_returns_db ==
    /\ pc = "init_fail"
    /\ pc' = "ready"
    /\ handle' = DbAddr
    /\ call' = InitReturned(DbAddr)
    /\ UNCHANGED << typesFile, planesFile, stream, inbuf, db, tis, pis, prev,
                    freed, lastFound, loadRet, hexIn, hexOut, intIn, intOut >>

\* planedb_init after a loader returned FALSE: planedb_close(db), return NULL.
planedb_init_fail ==
    /\ pc = "init_fail"
    /\ \E carry \in BOOLEAN :
        LET c == planedb_close_run(carry)
        IN  /\ tis' = c.tis
            /\ pis' = c.pis
            /\ freed' = freed \o c.log
            /\ IF c.crashed
                   THEN pc' = "crashed" /\ UNCHANGED << db, call >>
                   ELSE /\ pc' = "failed"
                        /\ db' = [db EXCEPT !.alloc = "freed"]
                        /\ call' = InitReturned(Null)
    /\ UNCHANGED << typesFile, planesFile, stream, inbuf, prev, handle,
                    lastFound, loadRet, hexIn, hexOut, intIn, intOut >>

\* ------------------------------------------------------------------------
\* The two lookups
\* ------------------------------------------------------------------------

\* while (rec) { if (rec->id == id) ...; rec = rec->next; } from p: the
\* record found, the end of the chain (NULL), a pointer that is no record
\* ("wild"), or a record met twice ("loop": the chain is circular and the
\* scan never ends).
RECURSIVE scan(_, _, _, _)
scan(heap, p, id, seen) ==
    IF p = Null THEN [kind |-> "end", rec |-> Null]
    ELSE IF p \notin DOMAIN heap THEN [kind |-> "wild", rec |-> p]
    ELSE IF p \in seen THEN [kind |-> "loop", rec |-> p]
    ELSE IF heap[p].id = id THEN [kind |-> "found", rec |-> p]
    ELSE scan(heap, heap[p].next, id, seen \cup {p})

\* What a scan that reads memory that is no record may do: fault, find there
\* an int equal to id ("found"), find a NULL next ("end"), or never end.
WildOutcomes == {"crash", "found", "end", "hang"}

Returned(d, r, rd) == [outcome |-> "ret", ret |-> r, db |-> d, reads |-> rd]
Stopped(d, how, rd) == [outcome |-> how, ret |-> Null, db |-> d, reads |-> rd]

\* type_lookup(db, id): the outcomes, each with the context after the call.
type_lookup(d, id) ==
    IF id = d.last_model THEN {Returned(d, d.last_ti, {"last_model", "last_ti"})}
    ELSE LET s == scan(tis, d.types, id, {})
             hit == [d EXCEPT !.last_model = id, !.last_ti = s.rec]
             rd == {"last_model", "types", "records"}
         IN  IF s.kind = "found" THEN {Returned(hit, s.rec, rd)}
             ELSE IF s.kind = "end" THEN {Returned(d, Null, rd)}
             ELSE IF s.kind = "loop" THEN {Stopped(d, "hang", rd)}
             ELSE {Stopped(d, "crash", rd), Returned(hit, s.rec, rd),
                   Returned(d, Null, rd), Stopped(d, "hang", rd)}

\* planedb_lookup past its first test: the cache, then the scan.
planedb_lookup_search(d, icao) ==
    LET id == parse_hex(icao, 0)
    IN  IF id = d.last_icao
            THEN {Returned(d, d.last_pi, {"icao", "last_icao", "last_pi"})}
        ELSE LET s == scan(pis, d.planes, id, {})
                 hit == [d EXCEPT !.last_icao = id, !.last_pi = s.rec]
                 rd == {"icao", "last_icao", "planes", "records"}
             IN  IF s.kind = "found" THEN {Returned(hit, s.rec, rd)}
                 ELSE IF s.kind = "end" THEN {Returned(d, Null, rd)}
                 ELSE IF s.kind = "loop" THEN {Stopped(d, "hang", rd)}
                 ELSE {Stopped(d, "crash", rd), Returned(hit, s.rec, rd),
                       Returned(d, Null, rd), Stopped(d, "hang", rd)}

\* planedb_lookup with its first test reduced to !icao: a NULL context is
\* dereferenced.
planedb_lookup_no_db_test(d, h, icao) ==
    IF icao = NullStr THEN {Returned(d, Null, {})}
    ELSE IF h = Null THEN {Stopped(d, "crash", {"icao", "last_icao"})}
    ELSE planedb_lookup_search(d, icao)

\* planedb_lookup(db, icao) with db = h (NULL or the context) and icao a
\* string or NULL: the outcomes.
planedb_lookup_run(d, h, icao) ==
    IF h = Null \/ icao = NullStr THEN {Returned(d, Null, {})}
    ELSE planedb_lookup_search(d, icao)

\* The ICAO strings the caller looks up: "A1B2C3", "B00B", "", "BEEF", and
\* no string (NULL).
IcaoArgs ==
    {HexA1B2C3, <<66, 48, 48, 66>>, << >>, <<66, 69, 69, 70>>, NullStr}

AfterCall(o) == IF o = "ret" THEN pc ELSE IF o = "crash" THEN "crashed" ELSE "hung"

\* A call of planedb_lookup with what planedb_init returned.
planedb_lookup ==
    /\ pc \in {"ready", "failed"}
    /\ \E icao \in IcaoArgs :
       \E r \in planedb_lookup_run(db, handle, icao) :
        /\ db' = r.db
        /\ pc' = AfterCall(r.outcome)
        /\ call' = [NoCall EXCEPT !.op = "lookup", !.db = handle,
                        !.icaoNull = (icao = NullStr),
                        !.id = IF icao = NullStr THEN 0 ELSE parse_hex(icao, 0),
                        !.ret = r.ret, !.outcome = r.outcome, !.reads = r.reads]
        /\ lastFound' = IF r.outcome = "ret" /\ r.ret # Null
                            THEN [lastFound EXCEPT !.planes = << call'.id, r.ret >>]
                            ELSE lastFound
    /\ UNCHANGED << typesFile, planesFile, stream, inbuf, tis, pis, prev, handle,
                    freed, loadRet, hexIn, hexOut, intIn, intOut >>

\* ------------------------------------------------------------------------
\* Rendering
\* ------------------------------------------------------------------------

typeTable ==
    << "None", "Glider", "Balloon", "Blimp/Dirigible", "Fixed wing single engine",
       "Fixed wing multi engine", "Rotorcraft", "Weight-shift-control",
       "Powered Parachute", "Gyroplane" >>

\* typeInfoPrint(ti) on a record: the lines printed before the type line.
typeInfoHead(ti) ==
    << <<"## Type">> >>
    \o (IF tis[ti].manufacturer # NullStr
        THEN << <<"Manufacturer", tis[ti].manufacturer>> >> ELSE << >>)
    \o (IF tis[ti].model # NullStr
        THEN << <<"Model name", tis[ti].model>> >> ELSE << >>)

\* typeInfoPrint(ti) on a record: the lines printed.  typeTable[ti->type] is
\* read with no check of the index.
typeInfoPrint(ti) ==
    typeInfoHead(ti)
    \o << <<"Type", tis[ti].type,
            IF tis[ti].type \in 0..9 THEN typeTable[tis[ti].type + 1]
            ELSE "(out of bounds)">>,
          <<"Seats", tis[ti].nrseats>> >>

\* The lines planeInfoPrint prints of a record before the type lookup.
planeInfoLines(pi) ==
    << <<"## Registration">> >>
    \o (IF pis[pi].nnum # NullStr THEN << <<"N-Number", pis[pi].nnum>> >> ELSE << >>)
    \o (IF pis[pi].registrant # NullStr
        THEN << <<"Registrant", pis[pi].registrant>> >> ELSE << >>)
    \o (IF pis[pi].model # 0 THEN << <<"Model", pis[pi].model>> >> ELSE << >>)

\* planeInfoPrint(db, pi): the outcomes, each with the lines printed.  A NULL
\* pi prints "None" and is then dereferenced all the same: the read of
\* pi->nnum faults, or (address 0 mapped) the three fields read as zero and
\* the type lookup is made with model 0.  When the type lookup returns a
\* pointer, typeInfoPrint reads typeTable[ti->type]: past the table's ten
\* entries, or through a pointer to no record, the read yields some char *
\* and printf either prints what it points to or faults.
planeInfoPrint_run(d, pi) ==
    LET head == IF pi = Null THEN << <<"None">>, <<"## Registration">> >>
                ELSE planeInfoLines(pi)
        T == type_lookup(d, IF pi = Null THEN 0 ELSE pis[pi].model)
        typed(t) == t.outcome = "ret" /\ t.ret # Null
        wrong(t) == typed(t) /\ (t.ret \notin DOMAIN tis
                                 \/ tis[t.ret].type \notin 0..9)
        shown(t) ==
            [outcome |-> t.outcome,
             ret |-> IF t.outcome = "ret" THEN 1 ELSE Null,
             db |-> t.db,
             reads |-> t.reads \cup {"pi"}
                       \cup (IF typed(t) THEN {"typeTable"} ELSE {}),
             out |-> head
                     \o (IF t.outcome # "ret" THEN << >>
                         ELSE IF t.ret = Null THEN << <<"No model info">> >>
                         ELSE IF t.ret \in DOMAIN tis THEN typeInfoPrint(t.ret)
                         ELSE << <<"## Type">>, <<"(not a record)">> >>)]
        fault(t) ==
            [shown(t) EXCEPT
                !.outcome = "crash", !.ret = Null,
                !.out = head \o (IF t.ret \in DOMAIN tis THEN typeInfoHead(t.ret)
                                 ELSE << <<"## Type">> >>)]
        runs == {shown(t) : t \in T} \cup {fault(t) : t \in {u \in T : wrong(u)}}
    IN  IF pi = Null
            THEN {[outcome |-> "crash", ret |-> Null, db |-> d, reads |-> {"pi"},
                   out |-> head]} \cup runs
            ELSE runs

\* A call of planeInfoPrint with a record of the index, or with NULL.
planeInfoPrint ==
    /\ pc = "ready"
    /\ \E pi \in {Null} \cup DOMAIN pis :
       \E r \in planeInfoPrint_run(db, pi) :
        /\ db' = r.db
        /\ pc' = AfterCall(r.outcome)
        /\ call' = [NoCall EXCEPT !.op = "print", !.db = handle, !.id = pi,
                        !.ret = r.ret, !.outcome = r.outcome, !.reads = r.reads,
                        !.out = r.out]
        /\ lastFound' =
               IF r.outcome = "ret" /\ r.db.last_ti # Null
                  /\ r.out[Len(r.out)] # <<"No model info">>
                   THEN [lastFound EXCEPT
                            !.types = << IF pi = Null THEN 0 ELSE pis[pi].model,
                                         r.db.last_ti >>]
                   ELSE lastFound
    /\ UNCHANGED << typesFile, planesFile, stream, inbuf, tis, pis, prev, handle,
                    freed, loadRet, hexIn, hexOut, intIn, intOut >>

\* ------------------------------------------------------------------------
\* planedb_close
\* ------------------------------------------------------------------------

\* A call of planedb_close with what planedb_init returned.
planedb_close ==
    /\ pc \in {"ready", "failed"}
    /\ IF handle = Null
           THEN /\ pc' = "closed"
                /\ call' = [NoCall EXCEPT !.op = "close", !.db = Null, !.ret = 0]
                /\ UNCHANGED << db, tis, pis, freed >>
           ELSE \E carry \in BOOLEAN :
                LET c == planedb_close_run(carry)
                IN  /\ tis' = c.tis
                    /\ pis' = c.pis
                    /\ freed' = freed \o c.log
                    /\ db' = IF c.crashed THEN db ELSE [db EXCEPT !.alloc = "freed"]
                    /\ pc' = IF c.crashed THEN "crashed" ELSE "closed"
                    /\ call' = [NoCall EXCEPT !.op = "close", !.db = handle,
                                    !.ret = 1,
                                    !.outcome = IF c.crashed THEN "crash" ELSE "ret",
                                    !.reads = {"types", "planes", "records"}]
    /\ UNCHANGED << typesFile, planesFile, stream, inbuf, prev, handle,
                    lastFound, loadRet, hexIn, hexOut, intIn, intOut >>

Next ==
    \/ planedb_init
    \/ load_types_done
    \/ load_types_skip
    \/ load_types_record
    \/ load_planes_done
    \/ load_planes_skip
    \/ load_planes_record
    \/ planedb_init_fail
    \/ planedb_lookup
    \/ planeInfoPrint
    \/ planedb_close

Spec == Init /\ [][Next]_vars

\* The steps of planedb_init and of the loaders it calls.  The library runs
\* on the caller's thread with no suspension point: once planedb_init is
\* called, each of its steps that can run does run.
InitStep ==
    \/ planedb_init
    \/ load_types_done
    \/ load_types_skip
    \/ load_types_record
    \/ load_planes_done
    \/ load_planes_skip
    \/ load_planes_record
    \/ planedb_init_fail

SpecFair == Spec /\ WF_vars(InitStep)

\* ------------------------------------------------------------------------
\* parse_hex on its own: a string of hex digits is built one digit at a
\* time, optionally followed by a non-hex suffix and preceded by offset
\* characters, and parse_hex is applied to it.
\* ------------------------------------------------------------------------

MaxHexDigits == 8

\* '7', 'a', 'F'
HexAlphabet == {55, 97, 70}
HexOffsets == {0, 3}
\* "123": what precedes the offset; ",junk": what may follow the digits
HexPrefix == <<49, 50, 51>>
HexSuffix == <<44, 106, 117, 110, 107>>

HexString(in) ==
    SubSeq(HexPrefix, 1, in.offset) \o in.digits
    \o (IF in.suffix THEN HexSuffix ELSE << >>)

InitHex ==
    /\ pc = "start"
    /\ typesFile = "missing"
    /\ planesFile = "missing"
    /\ stream = NoStream
    /\ inbuf = << >>
    /\ db = [alloc |-> "none", types |-> Null, last_model |-> 0, last_ti |-> Null,
             planes |-> Null, last_icao |-> 0, last_pi |-> Null]
    /\ tis = << >>
    /\ pis = << >>
    /\ prev = Null
    /\ handle = Null
    /\ call = NoCall
    /\ freed = << >>
    /\ lastFound = [types |-> << >>, planes |-> << >>]
    /\ loadRet = [types |-> "none", planes |-> "none"]
    /\ \E off \in HexOffsets : hexIn = [NoHexIn EXCEPT !.offset = off]
    /\ hexOut = << >>
    /\ intIn = NoIntIn
    /\ intOut = << >>

HexFrame ==
    UNCHANGED << pc, typesFile, planesFile, stream, inbuf, db, tis, pis, prev,
                 handle, call, freed, lastFound, loadRet, intIn, intOut >>

HexAppendDigit ==
    /\ hexOut = << >>
    /\ ~hexIn.suffix
    /\ Len(hexIn.digits) < MaxHexDigits
    /\ \E c \in HexAlphabet : hexIn' = [hexIn EXCEPT !.digits = Append(@, c)]
    /\ UNCHANGED hexOut
    /\ HexFrame

HexAddSuffix ==
    /\ hexOut = << >>
    /\ ~hexIn.suffix
    /\ Len(hexIn.digits) >= 1
    /\ hexIn' = [hexIn EXCEPT !.suffix = TRUE]
    /\ UNCHANGED hexOut
    /\ HexFrame

HexApply ==
    /\ hexOut = << >>
    /\ Len(hexIn.digits) >= 1
    /\ hexIn' = [hexIn EXCEPT !.str = HexString(hexIn)]
    /\ hexOut' = << parse_hex(HexString(hexIn), hexIn.offset) >>
    /\ HexFrame

NextHex ==
    \/ HexAppendDigit
    \/ HexAddSuffix
    \/ HexApply

SpecHex == InitHex /\ [][NextHex]_vars

\* ------------------------------------------------------------------------
\* parse_int on its own: a string of decimal digits is built one digit at a
\* time, optionally followed by a non-digit suffix and preceded by offset
\* characters, and parse_int is applied to it.
\* ------------------------------------------------------------------------

MaxIntDigits == 10

\* '0', '2', '9'
IntAlphabet == {48, 50, 57}
IntOffsets == {0, 2}
\* "AB": what precedes the offset; " x": what may follow the digits
IntPrefix == <<65, 66>>
IntSuffix == <<32, 120>>

IntString(in) ==
    SubSeq(IntPrefix, 1, in.offset) \o in.digits
    \o (IF in.suffix THEN IntSuffix ELSE << >>)

InitInt ==
    /\ pc = "start"
    /\ typesFile = "missing"
    /\ planesFile = "missing"
    /\ stream = NoStream
    /\ inbuf = << >>
    /\ db = [alloc |-> "none", types |-> Null, last_model |-> 0, last_ti |-> Null,
             planes |-> Null, last_icao |-> 0, last_pi |-> Null]
    /\ tis = << >>
    /\ pis = << >>
    /\ prev = Null
    /\ handle = Null
    /\ call = NoCall
    /\ freed = << >>
    /\ lastFound = [types |-> << >>, planes |-> << >>]
    /\ loadRet = [types |-> "none", planes |-> "none"]
    /\ hexIn = NoHexIn
    /\ hexOut = << >>
    /\ \E off \in IntOffsets : intIn = [NoIntIn EXCEPT !.offset = off]
    /\ intOut = << >>

IntFrame ==
    UNCHANGED << pc, typesFile, planesFile, stream, inbuf, db, tis, pis, prev,
                 handle, call, freed, lastFound, loadRet, hexIn, hexOut >>

IntAppendDigit ==
    /\ intOut = << >>
    /\ ~intIn.suffix
    /\ Len(intIn.digits) < MaxIntDigits
    /\ \E c \in IntAlphabet : intIn' = [intIn EXCEPT !.digits = Append(@, c)]
    /\ UNCHANGED intOut
    /\ IntFrame

IntAddSuffix ==
    /\ intOut = << >>
    /\ ~intIn.suffix
    /\ Len(intIn.digits) >= 1
    /\ intIn' = [intIn EXCEPT !.suffix = TRUE]
    /\ UNCHANGED intOut
    /\ IntFrame

IntApply ==
    /\ intOut = << >>
    /\ Len(intIn.digits) >= 1
    /\ intIn' = [intIn EXCEPT !.str = IntString(intIn)]
    /\ intOut' = << parse_int(IntString(intIn), intIn.offset) >>
    /\ IntFrame

NextInt ==
    \/ IntAppendDigit
    \/ IntAddSuffix
    \/ IntApply

SpecInt == InitInt /\ [][NextInt]_vars

\* ------------------------------------------------------------------------
\* Properties
\* ------------------------------------------------------------------------

\* The last call was planedb_lookup with a context and a string.
LookupMade == call.op = "lookup" /\ call.db # Null /\ ~call.icaoNull

\* The ids of the records the registration loader constructed.
PlaneIds == {pis[p].id : p \in DOMAIN pis}

\* A full scan of an index in file order, with no cache: the first record
\* with this id, or NULL.
FirstMatch(heap, id) ==
    LET M == {p \in DOMAIN heap : heap[p].id = id}
    IN  IF M = {} THEN Null ELSE CHOOSE p \in M : \A q \in M : p <= q

Count(seq, e) == Cardinality({i \in DOMAIN seq : seq[i] = e})

\* C1: on a context planedb_init returned, a lookup of a string that parses
\* to the id of a loaded registration record returns a record with that id,
\* whatever lookups came before.
C1_LookupFindsLoaded ==
    (LookupMade /\ call.id \in PlaneIds)
        => /\ call.outcome = "ret"
           /\ call.ret \in DOMAIN pis
           /\ pis[call.ret].id = call.id

\* C2: on a context planedb_init returned, a lookup of a key that is the id
\* of no loaded registration record returns absent, whatever lookups came
\* before (none included).
C2_LookupAbsent ==
    (LookupMade /\ call.id \notin PlaneIds)
        => (call.outcome = "ret" /\ call.ret = Null)

\* C3: every lookup returns what a cache-free full scan of the index returns
\* for its key: planedb_lookup the first registration record with the id, and
\* the type lookup of a rendering the first type record with the model id.
C3_LookupIsFullScan ==
    /\ LookupMade
           => (call.outcome = "ret" /\ call.ret = FirstMatch(pis, call.id))
    /\ (call.op = "print" /\ call.id # Null)
           => /\ call.outcome = "ret"
              /\ LET ti == FirstMatch(tis, pis[call.id].model)
                 IN  call.out = planeInfoLines(call.id)
                                \o (IF ti = Null THEN << <<"No model info">> >>
                                    ELSE typeInfoPrint(ti))

\* C4: in every state of a context planedb_init returned, each index's cached
\* (key, record) is the key and result of the last successful lookup on that
\* index, and the cached record is a record of that index whose id is the
\* cached key.
C4_CacheInvariant ==
    pc = "ready"
        => /\ db.last_pi \in DOMAIN pis
           /\ pis[db.last_pi].id = db.last_icao
           /\ lastFound.planes = << db.last_icao, db.last_pi >>
           /\ db.last_ti \in DOMAIN tis
           /\ tis[db.last_ti].id = db.last_model
           /\ lastFound.types = << db.last_model, db.last_ti >>

\* C5: a planedb_lookup whose key is not the cached key and is the id of no
\* record leaves the context (both caches, both list heads) and all records
\* as they were.
C5_MissChangesNothing ==
    [][ ( /\ pc = "ready"
          /\ call'.op = "lookup" /\ call'.db # Null /\ ~call'.icaoNull
          /\ call'.id # db.last_icao
          /\ call'.id \notin PlaneIds )
        => (db' = db /\ pis' = pis /\ tis' = tis) ]_vars

\* C6: planedb_init loads the types first and the registrations second, the
\* second only after the first returned TRUE; it returns the context only
\* when both loaders returned TRUE, and otherwise returns NULL with the
\* context released (once).
C6_InitAllOrNothing ==
    /\ (pc = "load_planes" \/ loadRet.planes # "none") => loadRet.types = "TRUE"
    /\ pc = "load_types" => loadRet = [types |-> "none", planes |-> "none"]
    /\ handle # Null => loadRet = [types |-> "TRUE", planes |-> "TRUE"]
    /\ (call.op = "init" /\ call.ret # Null)
           => (handle = DbAddr /\ db.alloc = "live" /\ freed = << >>)
    /\ (loadRet.types = "FALSE" \/ loadRet.planes = "FALSE") => handle = Null
    /\ pc = "failed"
           => /\ handle = Null
              /\ db.alloc \in {"none", "freed"}
              /\ db.alloc = "freed"
                     => /\ Count(freed, <<"record", "PlaneDb", DbAddr>>) = 1
                        /\ "FALSE" \in {loadRet.types, loadRet.planes}

\* C6's case: the types were loaded, MASTER.txt could not be opened, and
\* planedb_init has returned NULL with the context released.
C6_Witness ==
    /\ pc = "failed"
    /\ call.op = "init"
    /\ loadRet = [types |-> "TRUE", planes |-> "FALSE"]
    /\ Len(tis) > 0
    /\ db.alloc = "freed"

\* C7: planedb_lookup with an absent context (what planedb_init returns when
\* a file is missing) or an absent string returns absent and reads no field
\* of the context and no record.
C7_LookupOnAbsent ==
    (call.op = "lookup" /\ (call.db = Null \/ call.icaoNull))
        => (call.outcome = "ret" /\ call.ret = Null /\ call.reads = {})

\* C7's case: a file was missing, planedb_init returned NULL, and a lookup
\* was made with that NULL and a string.
C7_Witness ==
    /\ call.op = "lookup"
    /\ call.db = Null
    /\ ~call.icaoNull
    /\ ~(ACFTREF.exists /\ MASTER.exists)
    /\ db.alloc = "freed"

\* C8: planedb_close on a context planedb_init returned frees every type
\* record and every registration record once, each with its two strings,
\* then the context, and frees nothing else; on an absent context it reads
\* nothing.
C8_TeardownComplete ==
    /\ (call.op = "close" /\ call.db # Null)
           => /\ call.outcome = "ret"
              /\ \A p \in DOMAIN tis :
                    /\ Count(freed, <<"record", "TypeInfo", p>>) = 1
                    /\ Count(freed, <<"string", "TypeInfo.manufacturer", p>>) = 1
                    /\ Count(freed, <<"string", "TypeInfo.model", p>>) = 1
              /\ \A p \in DOMAIN pis :
                    /\ Count(freed, <<"record", "PlaneInfo", p>>) = 1
                    /\ Count(freed, <<"string", "PlaneInfo.nnum", p>>) = 1
                    /\ Count(freed, <<"string", "PlaneInfo.registrant", p>>) = 1
              /\ Len(freed) = 3 * (Len(tis) + Len(pis)) + 1
              /\ freed[Len(freed)] = <<"record", "PlaneDb", DbAddr>>
    /\ (call.op = "close" /\ call.db = Null) => call.reads = {}

\* The lines of a file, each with its newline (the last may have none).
RECURSIVE FileLines(_, _)
FileLines(data, pos) ==
    IF pos >= Len(data) THEN << >>
    ELSE LET NLs == {k \in (pos + 1)..Len(data) : data[k] = NL}
             e == IF NLs = {} THEN Len(data)
                  ELSE CHOOSE k \in NLs : \A j \in NLs : k <= j
         IN  << SubSeq(data, pos + 1, e) >> \o FileLines(data, e)

\* The lines of at least min characters, in file order.
WideLines(data, min) == SelectSeq(FileLines(data, 0), LAMBDA l : Len(l) >= min)

\* C9: after a successful load the index holds one record for each line of
\* the file of at least the minimum width (68, 610), none for a shorter
\* line, in file order, whatever the length of the lines.
C9_OneRecordPerWideLine ==
    /\ loadRet.types = "TRUE"
           => LET L == WideLines(ACFTREF.data, TYPE_MINLEN)
              IN  /\ Len(tis) = Len(L)
                  /\ \A k \in DOMAIN L : tis[k].id = parse_int(L[k], 0)
    /\ loadRet.planes = "TRUE"
           => LET L == WideLines(MASTER.data, PLANE_MINLEN)
              IN  /\ Len(pis) = Len(L)
                  /\ \A k \in DOMAIN L : pis[k].id = parse_hex(L[k], 601)

\* The value of a hex digit, and of a sequence of at most four of them.
HexDigitValue(c) ==
    IF c >= 48 /\ c <= 57 THEN c - 48
    ELSE IF c >= 65 /\ c <= 70 THEN c - 55
    ELSE c - 87

RECURSIVE Base16(_)
Base16(ds) ==
    IF ds = << >> THEN 0
    ELSE Base16(SubSeq(ds, 1, Len(ds) - 1)) * 16 + HexDigitValue(ds[Len(ds)])

\* val is the unsigned base-16 value of the digits ds (at most 8): val is
\* not negative, and its two 16-bit halves are those of the digits.
IsBase16Value(val, ds) ==
    LET n == Len(ds)
        k == IF n > 4 THEN n - 4 ELSE 0
    IN  /\ val >= 0
        /\ val \div TwoTo16 = Base16(SubSeq(ds, 1, k))
        /\ val % TwoTo16 = Base16(SubSeq(ds, k + 1, n))

\* C10: for a string of 1 to 8 hex digits at the offset, followed or not by
\* non-hex characters, parse_hex returns the digits' unsigned base-16 value.
C10_ParseHexIsBase16 ==
    hexOut # << >> => IsBase16Value(hexOut[1], hexIn.digits)

\* The value of a sequence of at most five decimal digits.
RECURSIVE Base10(_)
Base10(ds) ==
    IF ds = << >> THEN 0
    ELSE Base10(SubSeq(ds, 1, Len(ds) - 1)) * 10 + (ds[Len(ds)] - CH_0)

\* val is the base-10 value of the digits ds (at most 10): val is not
\* negative, and val = hi * 10^5 + lo for the leading digits' value hi and
\* the value lo of the last five.
IsBase10Value(val, ds) ==
    LET n == Len(ds)
        k == IF n > 5 THEN n - 5 ELSE 0
    IN  /\ val >= 0
        /\ val \div 10^5 = Base10(SubSeq(ds, 1, k))
        /\ val % 10^5 = Base10(SubSeq(ds, k + 1, n))

\* C11: for a string of 1 to 10 decimal digits at the offset, followed or not
\* by a non-digit suffix, parse_int returns the digits' base-10 value, for
\* every value from 0 to 9999999999.
C11_ParseIntIsBase10 ==
    intOut # << >> => IsBase10Value(intOut[1], intIn.digits)

\* C11 within the range of an int: when the digits' value is at most
\* 2147483647 (fewer than ten digits, or ten with a leading 0), parse_int
\* returns it.
C11_ParseIntInRange ==
    (intOut # << >> /\ (Len(intIn.digits) < 10 \/ intIn.digits[1] = CH_0))
        => IsBase10Value(intOut[1], intIn.digits)

\* C12: on a context planedb_init returned, in every state (before any type
\* lookup included), rendering a registration record whose model id is the
\* id of no loaded type record prints "No model info" after the record's own
\* lines, and no type record's data.
C12_UnresolvedModel ==
    (call.op = "print" /\ call.id # Null
     /\ FirstMatch(tis, pis[call.id].model) = Null)
        => /\ call.outcome = "ret"
           /\ call.out = planeInfoLines(call.id) \o << <<"No model info">> >>

\* A loader returned FALSE on a file it had opened: an allocation failed.
LoaderAborted ==
    \/ (loadRet.types = "FALSE" /\ ACFTREF.exists)
    \/ (loadRet.planes = "FALSE" /\ MASTER.exists)

\* C13: when a loader aborted because an allocation failed, then once
\* planedb_init has returned NULL every record allocated during the
\* initialisation has been freed, with its strings, and the input file is
\* closed.
C13_NoLeakOnFailedLoad ==
    (pc = "failed" /\ LoaderAborted)
        => /\ ~stream.open
           /\ \A p \in DOMAIN tis :
                 /\ ~tis[p].live
                 /\ Count(freed, <<"record", "TypeInfo", p>>) = 1
                 /\ tis[p].manufacturer # NullStr
                       => Count(freed, <<"string", "TypeInfo.manufacturer", p>>) = 1
                 /\ tis[p].model # NullStr
                       => Count(freed, <<"string", "TypeInfo.model", p>>) = 1
           /\ \A p \in DOMAIN pis :
                 /\ ~pis[p].live
                 /\ Count(freed, <<"record", "PlaneInfo", p>>) = 1
                 /\ pis[p].nnum # NullStr
                       => Count(freed, <<"string", "PlaneInfo.nnum", p>>) = 1
                 /\ pis[p].registrant # NullStr
                       => Count(freed, <<"string", "PlaneInfo.registrant", p>>) = 1

\* A free() of a type record or of one of its strings; of a registration
\* record or of one of its strings; of the context.
IsTypeFree(e) == e[2] \in {"TypeInfo", "TypeInfo.manufacturer", "TypeInfo.model"}
IsPlaneFree(e) == e[2] \in {"PlaneInfo", "PlaneInfo.nnum", "PlaneInfo.registrant"}
IsDbFree(e) == e[2] = "PlaneDb"

\* C14 as stated: planedb_close releases in the reverse of the order of
\* construction: the registration records (loaded last) before the type
\* records (loaded first), and the context (allocated first) last.
C14_TeardownReverseOrder ==
    /\ \A i, j \in DOMAIN freed :
          (IsPlaneFree(freed[i]) /\ IsTypeFree(freed[j])) => i < j
    /\ \A i \in DOMAIN freed : IsDbFree(freed[i]) => i = Len(freed)

\* C14 as the code has it: planedb_close releases the type records first,
\* then the registration records (the order of construction), and the
\* context last.
C14_TeardownOrder ==
    /\ \A i, j \in DOMAIN freed :
          (IsTypeFree(freed[i]) /\ IsPlaneFree(freed[j])) => i < j
    /\ \A i \in DOMAIN freed : IsDbFree(freed[i]) => i = Len(freed)

\* C14's case: planedb_close has returned on a context with records in both
\* indexes, all of them released, and the context after them.
C14_Witness ==
    /\ call.op = "close"
    /\ call.outcome = "ret"
    /\ \E i \in DOMAIN freed : freed[i] = <<"record", "TypeInfo", Len(tis)>>
    /\ \E i \in DOMAIN freed : freed[i] = <<"record", "PlaneInfo", Len(pis)>>
    /\ Len(tis) >= 2
    /\ Len(pis) >= 2
    /\ IsDbFree(freed[Len(freed)])

\* C15: a rendering of a registration record that resolves to a loaded type
\* record reads the ten-entry typeTable only at an index from 0 to 9.  (The
\* type record rendered is the cached one: type_lookup returns db->last_ti.)
C15_TypeTableInBounds ==
    (call.op = "print" /\ "typeTable" \in call.reads /\ db.last_ti \in DOMAIN tis)
        => tis[db.last_ti].type \in 0..9

\* The records of an index that have this id.
Matches(heap, id) == {p \in DOMAIN heap : heap[p].id = id}

\* C16: when several loaded records of an index share an id, a lookup of
\* that id returns the one that comes first in the file, in every state and
\* after any lookups: planedb_lookup for the registrations, and the type
\* lookup of a rendering for the types.
C16_DuplicateIdsFirstWins ==
    /\ (LookupMade /\ Cardinality(Matches(pis, call.id)) >= 2)
           => (call.outcome = "ret" /\ call.ret = FirstMatch(pis, call.id))
    /\ (call.op = "print" /\ call.id # Null
        /\ Cardinality(Matches(tis, pis[call.id].model)) >= 2)
           => /\ call.outcome = "ret"
              /\ call.out = planeInfoLines(call.id)
                            \o typeInfoPrint(FirstMatch(tis, pis[call.id].model))

\* C16 with the context's four cache fields as a lookup leaves them (the id
\* looked up is not the value malloc left in last_icao, last_model): the
\* first of the records that share the id is returned.
C16_FirstWinsPastCache ==
    /\ (LookupMade /\ Cardinality(Matches(pis, call.id)) >= 2
        /\ "records" \in call.reads)
           => (call.outcome = "ret" /\ call.ret = FirstMatch(pis, call.id))

\* C17: each loader, once it has opened its file, returns (TRUE or FALSE),
\* also when a read returns no data and the end of the file has not been
\* signalled.
C17_LoaderTerminates ==
    /\ (pc = "load_types") ~> (loadRet.types # "none")
    /\ (pc = "load_planes") ~> (loadRet.planes # "none")

\* C17 for files whose every read succeeds: each loader returns.
C17_LoaderTerminatesOnReadableFiles ==
    /\ (pc = "load_types" /\ ~ACFTREF.ioerr) ~> (loadRet.types # "none")
    /\ (pc = "load_planes" /\ ~MASTER.ioerr) ~> (loadRet.planes # "none")

\* C18: after a loader has returned TRUE, the successor links from the
\* index head visit the records the loader constructed, each once, in file
\* order (records are numbered in the order of their construction), and the
\* last record's successor is NULL.
C18_ChainWellFormed ==
    /\ loadRet.types = "TRUE"
           => /\ db.types = (IF Len(tis) = 0 THEN Null ELSE 1)
              /\ \A k \in DOMAIN tis :
                    tis[k].next = (IF k < Len(tis) THEN k + 1 ELSE Null)
    /\ loadRet.planes = "TRUE"
           => /\ db.planes = (IF Len(pis) = 0 THEN Null ELSE 1)
              /\ \A k \in DOMAIN pis :
                    pis[k].next = (IF k < Len(pis) THEN k + 1 ELSE Null)

\* C18 but for the last record: the head and every link between two records
\* are as the loader's file order has them.
C18_ChainLinked ==
    /\ loadRet.types = "TRUE"
           => /\ db.types = (IF Len(tis) = 0 THEN Null ELSE 1)
              /\ \A k \in 1..(Len(tis) - 1) : tis[k].next = k + 1
    /\ loadRet.planes = "TRUE"
           => /\ db.planes = (IF Len(pis) = 0 THEN Null ELSE 1)
              /\ \A k \in 1..(Len(pis) - 1) : pis[k].next = k + 1

\* C19: the fields of a loaded record depend on its own line only: two
\* records loaded from equal lines of a file (whatever lines precede them)
\* have equal fields, the seat count read at offset 72 included.  (Stated
\* for files whose records and lines of at least the minimum width
\* correspond one to one.)
C19_RecordIndependence ==
    /\ loadRet.types = "TRUE"
           => LET L == WideLines(ACFTREF.data, TYPE_MINLEN)
              IN  Len(tis) = Len(L)
                  => \A j, k \in DOMAIN L :
                        L[j] = L[k]
                        => /\ tis[j].id = tis[k].id
                           /\ tis[j].manufacturer = tis[k].manufacturer
                           /\ tis[j].model = tis[k].model
                           /\ tis[j].type = tis[k].type
                           /\ tis[j].nrseats = tis[k].nrseats
    /\ loadRet.planes = "TRUE"
           => LET L == WideLines(MASTER.data, PLANE_MINLEN)
              IN  Len(pis) = Len(L)
                  => \A j, k \in DOMAIN L :
                        L[j] = L[k]
                        => /\ pis[j].id = pis[k].id
                           /\ pis[j].nnum = pis[k].nnum
                           /\ pis[j].model = pis[k].model
                           /\ pis[j].registrant = pis[k].registrant

\* C20: planeInfoPrint returns TRUE whatever it is given; given NULL it
\* prints "None" and nothing else, reads no field through the NULL pointer
\* and makes no type lookup.
C20_PrintAbsent ==
    /\ call.op = "print" => (call.outcome = "ret" /\ call.ret = 1)
    /\ (call.op = "print" /\ call.id = Null)
           => (call.out = << <<"None">> >> /\ call.reads = {})

====
